---- MODULE Spec2Model ----
(***************************************************************************)
(* A model of src/src/js/opencv-wrapper.js.  The file holds two AVPipeline *)
(* classes:                                                                *)
(*   "EventEmitter"  : class AVPipeline extends EventEmitter  (l. 53-517)  *)
(*   "MediaPipeline" : class AVPipeline extends MediaPipeline (l. 525-1160)*)
(* The variable `variant` says which of the two classes the pipeline       *)
(* instance is; definitions ending in _EE model the first class, those     *)
(* ending in _MP the second.                                               *)
(*                                                                         *)
(* Time.  Wall-clock time (performance.now()) is counted in units of       *)
(* 16.67/2 ms, so that the scheduler tick of 16.67 ms is 2 units.  Media    *)
(* time (videoElement.currentTime) is counted in units of 1/120 s, so that *)
(* the frame-skip threshold of 1/60 s is 2 units.                          *)
(***************************************************************************)
EXTENDS Integers, Sequences, FiniteSets, TLC

(***************************************************************************)
(* Bounds of the model.                                                    *)
(***************************************************************************)
\* largest circularBuffer.maxFrames the texture extension configures
MaxFramesCap == 2
\* most 'videoFrame' listeners registered on one pipeline
MaxListeners == 2
\* most initialize() calls that get past the isInitialized check
MaxInits == 2
\* most play() calls of the EventEmitter class (each adds a 'playing' listener)
MaxPlays == 2
\* longest processing time of one capture, in wall-clock units
MaxProc == 8
\* largest videoElement.currentTime, in media-time units
MaxTime == 4
\* live cv.Mat objects counted
MaxMats == 4
\* calls of initOpenCV() and getCV() that return
MaxCvCalls == 3

(***************************************************************************)
(* Program constants.                                                      *)
(***************************************************************************)
\* bytes per RGBA pixel: "targetWidth * targetHeight * 4"
BytesPerPixel == 4
\* the interval's period is Math.min(targetInterval / 2, 16.67)
TickCap == 2
\* frame-skip threshold: currentTime - _lastFrameTime < 1/60
MinSpacing == 2

Variants == {"EventEmitter", "MediaPipeline"}

\* 1000 / frameRate for 60, 30 and 24 frames per second
TargetIntervals == {2, 4, 5}

(***************************************************************************)
(* The texture extension handed to connectVideoTexture: textures and       *)
(* sources keyed by source id.  Ids 1 and 2 have a texture and a source,   *)
(* id 3 has a texture but no source, id 4 has neither.                     *)
(***************************************************************************)
SourceIds == {1, 2}
TextureIds == {1, 2, 3}
SourceArgs == {1, 2, 3, 4}

\* texture.userData.mpegTextureInfo of each texture
mpegTextureInfo(id) ==
    IF id = 2
    THEN [width |-> 2, height |-> 1, frameSize |-> 2 * 1 * BytesPerPixel]
    ELSE [width |-> 1, height |-> 1, frameSize |-> 1 * 1 * BytesPerPixel]

\* by how many bytes a ring's capacity falls short of maxFrames whole frames
Shortfalls == {0, 2}

\* a byte of the ring is modelled by a ghost tag: the number, modulo IdMod, of
\* the admission that wrote it
IdMod == MaxFramesCap + 1

NoSource == 0
NoPromise == 0
NoElement == 0
NoTimer == 0
NoTime == -1

VARIABLES
    variant,        \* which AVPipeline class this instance is
    \* ---- frame feed
    videoSources,   \* _EE: keys of this.videoSources (Map)
    listeners,      \* the 'videoFrame' listeners, in registration order;
                    \* an _EE frameHandler is its captured sourceId, an _MP
                    \* listener captures nothing and is NoSource
    videoSource,    \* _MP: this.videoSource (a source id, or NoSource)
    targetDims,     \* _MP: <<this.targetWidth, this.targetHeight>>
    ring,           \* the circular buffer of each source; its field ops is a
                    \* ghost: the push/pop calls made on it by the last emit
    frame,          \* the payload of the last 'videoFrame' event
    adm,            \* ghost: per source, how many frames were admitted
    onlyValid,      \* ghost: per source, every frame pushed had the
                    \* TargetSpec's dimensions and byte size
    \* ---- lifecycle
    isInitialized,  \* this.isInitialized
    videoElement,   \* this.videoElement: NoElement, or the number of the
                    \* element (the n-th one created); the play overlay, play
                    \* button and dash player are created and dropped with it
    created,        \* how many video elements were created so far
    removed,        \* the elements dispose() removed
    calls,          \* _MP: the initialize() calls suspended at an await
    video,          \* the media state of this.videoElement
    hasEvListeners, \* setupEventListeners() ran on this.videoElement
    tapped,         \* createMediaElementSource() ran on this.videoElement
    audio,          \* this.audioContext and this.mediaElementSource are set,
                    \* the audio sources connected to, and the number of
                    \* media-element source nodes created so far
    playingListeners, \* _EE: 'playing' listeners added by play()
    pendingPlays,   \* _EE: play() calls waiting for the media
    textureRequirements, \* <<width, height>> of this.textureRequirements
    videoProcessingInterval, \* this.videoProcessingInterval
    timers,         \* how many interval timers are live in the timer table
    disposed,       \* ghost: dispose() was called
    \* ---- pacing closure of startVideoProcessing (_EE)
    targetInterval, \* targetInterval
    sinceLast,      \* now - lastProcessTime at the next tick of the interval
    frameDelay,     \* frameDelay
    pace,           \* ghost: of the last two captures, the time between
                    \* their starts (gap) and the processing time of the
                    \* earlier one (procBefore) and the later one (proc)
    \* ---- capture
    lastFrameTime,  \* this._lastFrameTime (NoTime: undefined)
    liveMats,       \* the cv.Mat objects created and not deleted
    \* ---- the wait for the media of play() (_EE)
    isDASH,         \* initialize() is given a DASH manifest, so that it
                    \* creates this.dashPlayer
    activeStream,   \* this.dashPlayer.getActiveStream() is not null
    waits,          \* the play() calls and, of each, its promise and timers
    \* ---- the OpenCV.js loader of the module
    openCVPromise,  \* openCVPromise: NoPromise (null), or the number of a
                    \* promise
    cvPromises,     \* the state of each promise the loader created
    scripts,        \* how many script elements were appended to the body
    cvCalls,        \* ghost: of each initOpenCV()/getCV() call that
                    \* returned, the promise it returned and the outcome its
                    \* caller has seen
    prevEmitTime,   \* ghost: timestamp of the videoFrame before the last
    last            \* ghost: the operation that made the last step, whether
                    \* it threw, and whether it emitted a videoFrame

\* no audio context, no media-element source (l. 59, 530)
NoAudio ==
    [audioContext |-> FALSE, mediaElementSource |-> FALSE, links |-> {},
     taps |-> 0]

feedVars == <<videoSources, listeners, videoSource, targetDims>>
ringVars == <<ring, frame, adm, onlyValid, prevEmitTime>>
elemVars == <<videoElement, created, removed, video, hasEvListeners,
              tapped, audio>>
playVars == <<playingListeners, pendingPlays>>
waitVars == <<isDASH, activeStream, waits>>
cvVars == <<openCVPromise, cvPromises, scripts, cvCalls>>
timerVars == <<videoProcessingInterval, timers, targetInterval, sinceLast,
               frameDelay>>
lifeVars == <<isInitialized, elemVars, calls, playVars, textureRequirements,
              disposed>>

\* everything but the ghost `last`
stateVars == <<variant, waitVars, cvVars, feedVars, ringVars, lifeVars, timerVars, pace,
               lastFrameTime,
                   liveMats>>

vars == <<stateVars, last>>

\* a rational number is a pair <<numerator, denominator>>, denominator > 0
Leq(a, b) == a[1] * b[2] <= b[1] * a[2]
Whole(n) == <<n, 1>>

\* nothing was drawn to the canvas
NoDraw ==
    [src |-> <<0, 0>>, drawWidth |-> Whole(0), drawHeight |-> Whole(0),
     offsetX |-> Whole(0), offsetY |-> Whole(0)]

\* the ghost `last`: the step taken, whether it threw to its caller, whether
\* it emitted a videoFrame, and the rectangle its drawImage call drew
Did(op) == [op |-> op, threw |-> FALSE, emitted |-> FALSE, drew |-> NoDraw]
Threw(op) == [op |-> op, threw |-> TRUE, emitted |-> FALSE, drew |-> NoDraw]
Emitted(op) == [op |-> op, threw |-> FALSE, emitted |-> TRUE, drew |-> NoDraw]
Drew(op, rect) == [op |-> op, threw |-> FALSE, emitted |-> TRUE, drew |-> rect]

Min(a, b) == IF a <= b THEN a ELSE b
Max(a, b) == IF a >= b THEN a ELSE b

(***************************************************************************)
(* The ring buffer (external collaborator): a byte store with push and     *)
(* pop.                                                                    *)
(***************************************************************************)
Bytes(id, n) == [i \in 1..n |-> id]

\* available_write(): free bytes
available_write(rb) == rb.capacity - Len(rb.buf)

\* push(bytes): writes as many bytes as fit, returns how many
push(rb, id, len) ==
    LET n == Min(len, available_write(rb))
    IN  [rb EXCEPT !.buf = rb.buf \o Bytes(id, n), !.ops = Append(rb.ops, "push")]

\* pop(dest): reads up to dest.length bytes from the read side
pop(rb, len) ==
    LET n == Min(len, Len(rb.buf))
    IN  [rb EXCEPT !.buf = SubSeq(rb.buf, n + 1, Len(rb.buf)),
                   !.ops = Append(rb.ops, "pop")]

(***************************************************************************)
(* connectVideoTexture's frame handlers.  tag is the ghost tag of the      *)
(* bytes written.                                                          *)
(***************************************************************************)
\* mutant: admission without the eviction of the oldest frame
frameHandlerNoEvict(rb, mpegInfo, f, tag) ==
    IF f.width # mpegInfo.width \/ f.height # mpegInfo.height
    THEN rb
    ELSE LET w == push(rb, tag, f.len)
         IN  [w EXCEPT !.count = w.count + 1]

\* mutant: admission that evicts after the push instead of before it
frameHandlerEvictAfter(rb, mpegInfo, f, tag) ==
    IF f.width # mpegInfo.width \/ f.height # mpegInfo.height
    THEN rb
    ELSE LET r1 == push(rb, tag, f.len)
             r2 == [r1 EXCEPT !.count = r1.count + 1]
         IN  IF r2.count > r2.maxFrames
             THEN [pop(r2, f.len) EXCEPT !.count = r2.count - 1]
             ELSE r2

\* mutant: admission without the dimension check
frameHandlerNoDims(rb, mpegInfo, f, tag) ==
    LET r1 == IF rb.count >= rb.maxFrames
              THEN [pop(rb, f.len) EXCEPT !.count = rb.count - 1]
              ELSE rb
        r2 == push(r1, tag, f.len)
    IN  [r2 EXCEPT !.count = r2.count + 1]

\* _EE frameHandler (l. 391-430) on the circularBuffer rb of its source; the
\* calls of a broken ring throw, which the handler catches (l. 409-428)
frameHandler(rb, mpegInfo, f, tag) ==
    IF f.width # mpegInfo.width \/ f.height # mpegInfo.height
    THEN rb
    ELSE IF rb.broken
    THEN rb
    ELSE LET r1 == IF rb.count >= rb.maxFrames
                   THEN [pop(rb, f.len) EXCEPT !.count = rb.count - 1]
                   ELSE rb
             r2 == push(r1, tag, f.len)
         IN  [r2 EXCEPT !.count = r2.count + 1]

\* _MP 'videoFrame' listener (l. 988-1047) on this.videoSource.bufferCircular
videoFrameListener(rb, tdims, f, tag) ==
    IF f.width # tdims[1] \/ f.height # tdims[2]
    THEN rb
    ELSE IF f.len # tdims[1] * tdims[2] * BytesPerPixel
    THEN rb
    ELSE IF rb.broken
    THEN rb   \* push throws; caught (l. 1043-1044)
    ELSE push(rb, tag, f.len)

\* the source whose ring the listener lst feeds (NoSource: none)
TargetOf(lst) ==
    IF variant = "EventEmitter"
    THEN IF lst \in videoSources THEN lst ELSE NoSource
    ELSE videoSource

\* f has the dimensions and the byte size of the TargetSpec of source s
ValidFor(s, f) ==
    /\ f.width = mpegTextureInfo(s).width
    /\ f.height = mpegTextureInfo(s).height
    /\ f.len = mpegTextureInfo(s).frameSize

\* the ghost admission counter: it wraps around, staying at or above IdMod
Bump(n) == IF n + 1 < 2 * IdMod THEN n + 1 ELSE IdMod

\* one listener applied to fs = [ring, adm, onlyValid]
ApplyListener(fs, lst, f) ==
    LET s == TargetOf(lst)
    IN  IF s = NoSource THEN fs
        ELSE LET tag == fs.adm[s] % IdMod
                 rb == IF variant = "EventEmitter"
                       THEN frameHandler(fs.ring[s], mpegTextureInfo(s), f, tag)
                       ELSE videoFrameListener(fs.ring[s], targetDims, f, tag)
                 pushed == Len(rb.ops) > Len(fs.ring[s].ops)
             IN  [ring |-> [fs.ring EXCEPT ![s] = rb],
                  adm  |-> IF pushed THEN [fs.adm EXCEPT ![s] = Bump(@)]
                           ELSE fs.adm,
                  onlyValid |-> IF pushed
                                THEN [fs.onlyValid EXCEPT ![s] = @ /\ ValidFor(s, f)]
                                ELSE fs.onlyValid]

\* emit('videoFrame', f): every listener in registration order, synchronously
RECURSIVE emit(_, _, _)
emit(fs, lsts, f) ==
    IF lsts = <<>> THEN fs
    ELSE emit(ApplyListener(fs, Head(lsts), f), Tail(lsts), f)

\* the effect of this.emit('videoFrame', f) on the rings
Deliver(f) ==
    LET fs0 == [ring |-> [s \in SourceIds |-> [ring[s] EXCEPT !.ops = <<>>]],
                adm |-> adm, onlyValid |-> onlyValid]
        fs1 == emit(fs0, listeners, f)
    IN  /\ frame' = f
        /\ ring' = fs1.ring
        /\ adm' = fs1.adm
        /\ onlyValid' = fs1.onlyValid
        /\ prevEmitTime' = frame.timestamp

FrameDims == {<<1, 1>>, <<2, 1>>}
FrameLens == {1 * 1 * BytesPerPixel, 2 * 1 * BytesPerPixel}

\* a 'videoFrame' event with a payload of dimensions d and byte length len
EmitVideoFrame(d, len) ==
    /\ listeners # <<>>
    /\ Deliver([width |-> d[1], height |-> d[2], len |-> len,
                timestamp |-> NoTime])
    /\ last' = Emitted("videoFrame")
    /\ UNCHANGED <<variant, waitVars, cvVars, feedVars, lifeVars, timerVars, pace, lastFrameTime,
                   liveMats>>

(***************************************************************************)
(* connectVideoTexture(textureExtension, sourceId)                         *)
(***************************************************************************)
\* _EE (l. 360-434)
connectVideoTexture_EE(sourceId) ==
    /\ variant = "EventEmitter"
    /\ IF sourceId \notin TextureIds \/ sourceId \notin SourceIds
       THEN \* throws "Texture not found" / "Video source not found"
            /\ last' = Threw("connectVideoTexture")
            /\ UNCHANGED stateVars
       ELSE /\ Len(listeners) < MaxListeners
            /\ videoSources' = videoSources \cup {sourceId}
            /\ listeners' = Append(listeners, sourceId)
            /\ last' = Did("connectVideoTexture")
            /\ UNCHANGED <<variant, waitVars, cvVars, videoSource, targetDims, ringVars,
                           lifeVars, timerVars, pace, lastFrameTime,
                   liveMats>>

\* _MP (l. 937-1048)
connectVideoTexture_MP(sourceId) ==
    /\ variant = "MediaPipeline"
    /\ IF sourceId \notin TextureIds
       THEN \* throws "Texture not found"
            /\ last' = Threw("connectVideoTexture")
            /\ UNCHANGED stateVars
       ELSE IF sourceId \notin SourceIds
       THEN \* this.videoSource = undefined, then throws
            /\ videoSource' = NoSource
            /\ last' = Threw("connectVideoTexture")
            /\ UNCHANGED <<variant, waitVars, cvVars, videoSources, listeners, targetDims,
                           ringVars, lifeVars, timerVars, pace, lastFrameTime,
                   liveMats>>
       ELSE /\ Len(listeners) < MaxListeners
            /\ videoSource' = sourceId
            /\ targetDims' = <<mpegTextureInfo(sourceId).width,
                               mpegTextureInfo(sourceId).height>>
            /\ listeners' = Append(listeners, NoSource)
            /\ last' = Did("connectVideoTexture")
            /\ UNCHANGED <<variant, waitVars, cvVars, videoSources, ringVars, lifeVars,
                           timerVars, pace, lastFrameTime,
                   liveMats>>

(***************************************************************************)
(* The pacing timer.  st is the record of the timer's state:               *)
(* interval = this.videoProcessingInterval, timers = live interval timers, *)
(* T = targetInterval, since = now - lastProcessTime at the next tick,     *)
(* fd = frameDelay.                                                        *)
(***************************************************************************)
timerState ==
    [interval |-> videoProcessingInterval, timers |-> timers,
     T |-> targetInterval, since |-> sinceLast, fd |-> frameDelay]

SetTimer(st) ==
    /\ videoProcessingInterval' = st.interval
    /\ timers' = st.timers
    /\ targetInterval' = st.T
    /\ sinceLast' = st.since
    /\ frameDelay' = st.fd

\* the period of the interval: Math.min(targetInterval / 2, 16.67)
Period(T) == Min(T \div 2, TickCap)

\* mutant: startVideoProcessing without the "already processing" check
startVideoProcessingNoGuard(st, ready, T) ==
    IF ready
    THEN [interval |-> 1, timers |-> st.timers + 1, T |-> T,
          since |-> Period(T), fd |-> 0]
    ELSE st

\* _EE startVideoProcessing (l. 147-217); ready is readyState >= 2 and T is
\* 1000 / frameRate
startVideoProcessing_EE(st, ready, T) ==
    IF st.interval # NoTimer
    THEN st
    ELSE IF ready
    THEN [interval |-> 1, timers |-> st.timers + 1, T |-> T,
          since |-> Period(T), fd |-> 0]
    ELSE st

\* _MP startVideoProcessing (l. 713-735)
startVideoProcessing_MP(st, ready) ==
    IF st.interval = NoTimer /\ ready
    THEN [st EXCEPT !.interval = 1, !.timers = st.timers + 1]
    ELSE st

\* stopVideoProcessing (l. 219-224 and l. 740-747)
stopVideoProcessing(st) ==
    IF st.interval # NoTimer
    THEN [st EXCEPT !.interval = NoTimer, !.timers = st.timers - 1]
    ELSE st

\* n listeners of one 'playing' event, each calling startVideoProcessing
RECURSIVE StartTimes(_, _, _, _)
StartTimes(st, n, ready, T) ==
    IF n = 0 THEN st
    ELSE StartTimes(startVideoProcessing_EE(st, ready, T), n - 1, ready, T)

\* mutant: the overrun is added to the wait instead of subtracted from it
shouldProcessPlus(st) == st.since >= st.T + st.fd

\* "elapsed >= targetInterval - frameDelay" (l. 197)
shouldProcess(st) == st.since >= st.T - st.fd

\* mutant: the overrun of a capture without the clamp at zero
afterCaptureNoClamp(st, p) ==
    [st EXCEPT !.fd = p - (st.T - st.since),
               !.since = Max(Period(st.T), p)]

\* the closure's state after a capture that took p (l. 198-204); the next
\* tick of the interval comes a period after this one, or as soon as the
\* capture has returned
afterCapture(st, p) ==
    [st EXCEPT !.fd = Max(0, p - (st.T - st.since)),
               !.since = Max(Period(st.T), p)]

\* the closure's state after a tick that does not capture
afterIdleTick(st) == [st EXCEPT !.since = st.since + Period(st.T)]

(***************************************************************************)
(* processVideoFrame                                                       *)
(***************************************************************************)
\* videoWidth and videoHeight of the element once they are known
SourceDims == {<<1, 1>>, <<2, 2>>, <<3, 1>>}

\* _EE: the rectangle of the drawImage call on the target canvas
\* (l. 271-299), for a source of size src and a target of size dst
drawRect_EE(src, dst) ==
    LET videoWidth == src[1]
        videoHeight == src[2]
        targetWidth == dst[1]
        targetHeight == dst[2]
    IN  IF videoWidth * targetHeight > targetWidth * videoHeight
        THEN \* sourceAspect > targetAspect: "scale to target height"
             [src |-> src,
              drawHeight |-> Whole(targetHeight),
              drawWidth |-> <<targetHeight * videoWidth, videoHeight>>,
              offsetX |-> <<targetWidth * videoHeight
                              - targetHeight * videoWidth, 2 * videoHeight>>,
              offsetY |-> Whole(0)]
        ELSE \* "scale to target width"
             [src |-> src,
              drawWidth |-> Whole(targetWidth),
              drawHeight |-> <<targetWidth * videoHeight, videoWidth>>,
              offsetX |-> Whole(0),
              offsetY |-> <<targetHeight * videoWidth
                              - targetWidth * videoHeight, 2 * videoWidth>>]

\* _MP: the frame is drawn at its own size on a canvas of that size
\* (l. 775-783)
drawRect_MP(src) ==
    [src |-> src, drawWidth |-> Whole(src[1]), drawHeight |-> Whole(src[2]),
     offsetX |-> Whole(0), offsetY |-> Whole(0)]

\* context.getImageData(0, 0, sw, sh): RGBA, 4 bytes per pixel
getImageData(sw, sh) ==
    [width |-> sw, height |-> sh, len |-> sw * sh * BytesPerPixel]

\* an OpenCV matrix, and the length of its data
Mat(cols, rows, channels) ==
    [cols |-> cols, rows |-> rows, channels |-> channels]
MatLen(m) == m.cols * m.rows * m.channels

\* cv.matFromImageData(imageData): 4 channels
matFromImageData(img) == Mat(img.width, img.height, BytesPerPixel)

\* cv.cvtColor(src, dst, code): dst has the size of src and the channels of
\* the code
cvtColor(m, channels) == Mat(m.cols, m.rows, channels)

\* a resize that leaves the matrix at its size
resizeKeepsSize(m, dsize) == m

\* cv.resize(src, dst, dsize, 0, 0, cv.INTER_LINEAR)
resize(m, dsize) == Mat(dsize[1], dsize[2], m.channels)

\* _EE: the canvas is set to the target dimensions and the frame is read
\* back from it (l. 262-310); src is drawn letterboxed into it
capture_EE(src, ts) ==
    LET imageData == getImageData(textureRequirements[1],
                                  textureRequirements[2])
    IN  [width |-> imageData.width, height |-> imageData.height,
         len |-> imageData.len, timestamp |-> ts]

\* _MP: the frame is read back at the source dimensions and converted with
\* OpenCV (l. 783-927)
capture_MP(src) ==
    LET imageData == getImageData(src[1], src[2])
        dst == cvtColor(matFromImageData(imageData), 3)
        resized == resize(dst, textureRequirements)
        rgba == cvtColor(resized, BytesPerPixel)
    IN  [width |-> textureRequirements[1], height |-> textureRequirements[2],
         len |-> MatLen(rgba), timestamp |-> NoTime]

NoDelivery == UNCHANGED ringVars

\* a capture that throws inside the try of processVideoFrame, without the
\* catch
processVideoFrameNoCatch_EE(op, throws) ==
    IF videoElement = NoElement \/ video.paused \/ video.ended
    THEN /\ last' = Did(op)
         /\ NoDelivery /\ UNCHANGED <<lastFrameTime, liveMats>>
    ELSE IF /\ lastFrameTime # NoTime /\ lastFrameTime # 0
            /\ video.currentTime - lastFrameTime < MinSpacing
    THEN /\ last' = Did(op)
         /\ NoDelivery /\ UNCHANGED <<lastFrameTime, liveMats>>
    ELSE /\ lastFrameTime' = video.currentTime
         /\ UNCHANGED liveMats
         /\ IF ~video.hasDims
            THEN last' = Did(op) /\ NoDelivery
            ELSE IF \/ textureRequirements[1] = 0
                    \/ textureRequirements[2] = 0
                    \/ throws
            THEN last' = Threw(op) /\ NoDelivery
            ELSE \E src \in SourceDims :
                    /\ Deliver(capture_EE(src, video.currentTime))
                    /\ last' = Drew(op, drawRect_EE(src, textureRequirements))

\* mutant: processVideoFrame without the guard on a paused element
processVideoFrameNoPauseGuard_EE(op, throws) ==
    IF videoElement = NoElement \/ video.ended
    THEN /\ last' = Did(op)
         /\ NoDelivery /\ UNCHANGED <<lastFrameTime, liveMats>>
    ELSE IF /\ lastFrameTime # NoTime /\ lastFrameTime # 0
            /\ video.currentTime - lastFrameTime < MinSpacing
    THEN /\ last' = Did(op)
         /\ NoDelivery /\ UNCHANGED <<lastFrameTime, liveMats>>
    ELSE /\ lastFrameTime' = video.currentTime
         /\ UNCHANGED liveMats
         /\ IF ~video.hasDims
            THEN last' = Did(op) /\ NoDelivery
            ELSE IF \/ textureRequirements[1] = 0
                    \/ textureRequirements[2] = 0
                    \/ throws
            THEN last' = Did(op) /\ NoDelivery
            ELSE \E src \in SourceDims :
                    /\ Deliver(capture_EE(src, video.currentTime))
                    /\ last' = Drew(op, drawRect_EE(src, textureRequirements))

\* _EE processVideoFrame (l. 226-317), called by the step named op; throws:
\* drawImage or getImageData throws in this call
processVideoFrame_EE(op, throws) ==
    IF videoElement = NoElement \/ video.paused \/ video.ended
    THEN /\ last' = Did(op)
         /\ NoDelivery /\ UNCHANGED <<lastFrameTime, liveMats>>
    ELSE IF /\ lastFrameTime # NoTime /\ lastFrameTime # 0
            /\ video.currentTime - lastFrameTime < MinSpacing
    THEN /\ last' = Did(op)
         /\ NoDelivery /\ UNCHANGED <<lastFrameTime, liveMats>>
    ELSE /\ lastFrameTime' = video.currentTime
         /\ UNCHANGED liveMats
         /\ IF ~video.hasDims
            THEN last' = Did(op) /\ NoDelivery
            ELSE IF \/ textureRequirements[1] = 0
                    \/ textureRequirements[2] = 0
                    \/ throws
            THEN \* getImageData or drawImage throws; caught (l. 314-316)
                 last' = Did(op) /\ NoDelivery
            ELSE \E src \in SourceDims :
                    /\ Deliver(capture_EE(src, video.currentTime))
                    /\ last' = Drew(op, drawRect_EE(src, textureRequirements))

\* the target dimensions are not set (l. 803)
ZeroTarget == textureRequirements[1] = 0 \/ textureRequirements[2] = 0

\* the cv.Mat objects of the conversion that exist when one of its calls
\* throws: none up to matFromImageData (l. 783-791), src and dst in the first
\* cvtColor (l. 867), resized in cv.resize (l. 878), rgba in the second
\* cvtColor (l. 888)
ThrowPoints == {0, 2, 3, 4}

\* the count of live cv.Mat objects, kept up to MaxMats
Kept(n) == Min(n, MaxMats)

\* _MP processVideoFrame (l. 752-930), called by the step named op; throws:
\* drawImage, getImageData or an OpenCV call throws in this call
processVideoFrame_MP(op, throws) ==
    /\ UNCHANGED lastFrameTime
    /\ IF videoElement = NoElement \/ video.paused \/ video.ended
       THEN last' = Did(op) /\ NoDelivery /\ UNCHANGED liveMats
       ELSE IF ~video.hasDims
       THEN last' = Did(op) /\ NoDelivery /\ UNCHANGED liveMats
       ELSE IF throws
       THEN \* caught (l. 928-929); nothing is deleted on this path
            /\ last' = Did(op) /\ NoDelivery
            /\ \E k \in IF ZeroTarget THEN {0} ELSE ThrowPoints :
                  liveMats' = Kept(liveMats + k)
       ELSE IF ZeroTarget
       THEN \* returns with src and dst allocated (l. 791-809)
            /\ last' = Did(op) /\ NoDelivery
            /\ liveMats' = Kept(liveMats + 2)
       ELSE \* src, dst, resized and rgba are deleted (l. 908, 919-921)
            /\ \E src \in SourceDims :
                  /\ Deliver(capture_MP(src))
                  /\ last' = Drew(op, drawRect_MP(src))
            /\ UNCHANGED liveMats

\* how `last` names a tick that captures
TickOp(throws) == IF throws THEN "tick, capture throws" ELSE "tick"

\* a tick of the interval of the _EE class (l. 192-206); p is the time the
\* capture takes
CaptureTick_EE(p, throws) ==
    /\ variant = "EventEmitter"
    /\ timers > 0
    /\ IF shouldProcess(timerState)
       THEN /\ processVideoFrame_EE(TickOp(throws), throws)
            /\ SetTimer(afterCapture(timerState, p))
            /\ pace' = [gap |-> sinceLast, procBefore |-> pace.proc, proc |-> p]
       ELSE /\ p = 0 /\ ~throws
            /\ SetTimer(afterIdleTick(timerState))
            /\ last' = Did("idle tick")
            /\ NoDelivery
            /\ UNCHANGED <<pace, lastFrameTime, liveMats>>
    /\ UNCHANGED <<variant, waitVars, cvVars, feedVars, lifeVars>>

\* a tick of the interval of the _MP class (l. 725-727)
CaptureTick_MP(throws) ==
    /\ variant = "MediaPipeline"
    /\ timers > 0
    /\ processVideoFrame_MP(TickOp(throws), throws)
    /\ UNCHANGED <<variant, waitVars, cvVars, feedVars, lifeVars, timerVars, pace>>

\* ticks in which nothing throws
Tick_EE(p) == CaptureTick_EE(p, FALSE)
Tick_MP == CaptureTick_MP(FALSE)

\* ticks in which the capture throws
FaultyTick_EE(p) == CaptureTick_EE(p, TRUE)
FaultyTick_MP == CaptureTick_MP(TRUE)

(***************************************************************************)
(* The admission of the _EE frameHandler (l. 408-428) statement by         *)
(* statement, for a frame of the size of source s, and the consumer of the *)
(* ring.  ring[s].admit is the statement the handler is at.                *)
(***************************************************************************)
AdmitFrame ==
    <<variant, waitVars, cvVars, feedVars, frame, onlyValid, prevEmitTime, lifeVars, timerVars,
      pace, lastFrameTime, liveMats>>

\* a frameHandler of source s is registered
HandlerOn(s) ==
    /\ variant = "EventEmitter"
    /\ s \in videoSources
    /\ \E i \in 1..Len(listeners) : listeners[i] = s

\* "if (circularBuffer.count >= circularBuffer.maxFrames)" (l. 416)
frameHandlerTest(s) ==
    /\ HandlerOn(s) /\ ring[s].admit = "idle"
    /\ ring' = [ring EXCEPT ![s].admit =
                    IF ring[s].count >= ring[s].maxFrames THEN "pop"
                    ELSE "push"]
    /\ last' = Did("admission: test")
    /\ UNCHANGED <<adm, AdmitFrame>>

\* "circularBuffer.pop(oldData)" (l. 417-418)
frameHandlerPop(s) ==
    /\ ring[s].admit = "pop"
    /\ ring' = [ring EXCEPT ![s] =
                    [pop(ring[s], mpegTextureInfo(s).frameSize)
                        EXCEPT !.admit = "decrement", !.ops = <<>>]]
    /\ last' = Did("admission: pop")
    /\ UNCHANGED <<adm, AdmitFrame>>

\* "circularBuffer.count--" (l. 419)
frameHandlerDecrement(s) ==
    /\ ring[s].admit = "decrement"
    /\ ring' = [ring EXCEPT ![s].count = @ - 1, ![s].admit = "push"]
    /\ last' = Did("admission: decrement")
    /\ UNCHANGED <<adm, AdmitFrame>>

\* "circularBuffer.push(frameData)" (l. 423)
frameHandlerPush(s) ==
    /\ ring[s].admit = "push"
    /\ ring' = [ring EXCEPT ![s] =
                    [push(ring[s], adm[s] % IdMod, mpegTextureInfo(s).frameSize)
                        EXCEPT !.admit = "increment", !.ops = <<>>]]
    /\ adm' = [adm EXCEPT ![s] = Bump(@)]
    /\ last' = Did("admission: push")
    /\ UNCHANGED AdmitFrame

\* "circularBuffer.count++" (l. 424)
frameHandlerIncrement(s) ==
    /\ ring[s].admit = "increment"
    /\ ring' = [ring EXCEPT ![s].count = @ + 1, ![s].admit = "idle"]
    /\ last' = Did("admission: increment")
    /\ UNCHANGED <<adm, AdmitFrame>>

\* the consumer of the ring, in its own execution context: it pops one whole
\* frame when the ring holds one; count is the frame handler's and the
\* consumer does not touch it
Drain(s) ==
    /\ Len(ring[s].buf) >= mpegTextureInfo(s).frameSize
    /\ ring' = [ring EXCEPT ![s] =
                    [pop(ring[s], mpegTextureInfo(s).frameSize)
                        EXCEPT !.ops = <<>>]]
    /\ last' = Did("drain")
    /\ UNCHANGED <<adm, AdmitFrame>>

\* the ring of source s starts to throw on every call
RingBreaks(s) ==
    /\ ~ring[s].broken
    /\ ring' = [ring EXCEPT ![s].broken = TRUE]
    /\ last' = Did("ring breaks")
    /\ UNCHANGED <<variant, waitVars, cvVars, feedVars, frame, adm, onlyValid, prevEmitTime,
                   lifeVars, timerVars, pace, lastFrameTime,
                   liveMats>>

(***************************************************************************)
(* initialize(config)                                                      *)
(***************************************************************************)
FreshVideo ==
    [paused |-> TRUE, ended |-> FALSE, ready |-> FALSE, hasDims |-> FALSE,
     currentTime |-> 0]

\* document.createElement('video') and what is created along with it
NewElement ==
    /\ created < MaxInits
    /\ created' = created + 1
    /\ videoElement' = created + 1
    /\ video' = FreshVideo
    /\ tapped' = FALSE
    /\ UNCHANGED <<removed, audio>>

\* mutant: initialize without the isInitialized check
initializeNoGuard ==
    /\ variant = "EventEmitter"
    /\ NewElement
    /\ hasEvListeners' = TRUE
    /\ isInitialized' = TRUE
    /\ last' = Did("initialize")
    /\ UNCHANGED <<variant, waitVars, cvVars, feedVars, ringVars, calls, playVars,
                   textureRequirements, disposed, timerVars, pace,
                   lastFrameTime,
                   liveMats>>

\* _EE initialize (l. 77-119): no await, so one step
initialize_EE ==
    /\ variant = "EventEmitter"
    /\ IF isInitialized
       THEN last' = Did("initialize") /\ UNCHANGED stateVars
       ELSE /\ NewElement
            /\ hasEvListeners' = TRUE
            /\ isInitialized' = TRUE
            /\ last' = Did("initialize")
            /\ UNCHANGED <<variant, waitVars, cvVars, feedVars, ringVars, calls, playVars,
                           textureRequirements, disposed, timerVars, pace,
                           lastFrameTime,
                   liveMats>>

NoReq == <<>>

\* _MP initialize (l. 555-622), up to its first await; req is
\* config.textureRequirements
initialize_MP(req) ==
    /\ variant = "MediaPipeline"
    /\ IF isInitialized
       THEN last' = Did("initialize") /\ UNCHANGED stateVars
       ELSE /\ NewElement
            /\ textureRequirements' =
                  IF req = NoReq THEN textureRequirements ELSE req
            /\ hasEvListeners' = FALSE
            /\ calls' = Append(calls, [pc |-> "manifest", on |-> created + 1])
            /\ last' = Did("initialize")
            /\ UNCHANGED <<variant, waitVars, cvVars, feedVars, ringVars, isInitialized,
                           playVars, disposed, timerVars, pace, lastFrameTime,
                   liveMats>>

Without(s, i) == SubSeq(s, 1, i - 1) \o SubSeq(s, i + 1, Len(s))

callFrame == <<variant, waitVars, cvVars, feedVars, ringVars, playVars, textureRequirements,
               disposed, timerVars, pace, lastFrameTime, liveMats,
               videoElement,
               created, removed, video>>

\* MANIFEST_LOADED resumes call i (l. 629-641): it goes on to wait for the
\* metadata of this.videoElement, which throws when that is null
ManifestLoaded(i) ==
    /\ variant = "MediaPipeline"
    /\ i \in DOMAIN calls
    /\ calls[i].pc = "manifest" /\ calls[i].on \notin removed
    /\ IF videoElement = NoElement
       THEN calls' = Without(calls, i) /\ last' = Threw("initialize rejected")
       ELSE /\ calls' = [calls EXCEPT ![i] = [pc |-> "metadata", on |-> videoElement]]
            /\ last' = Did("manifest loaded")
    /\ UNCHANGED <<callFrame, isInitialized, hasEvListeners, tapped, audio>>

\* the 10 s timeout of the first or second await rejects call i (l. 625-639)
InitTimeout(i) ==
    /\ variant = "MediaPipeline"
    /\ i \in DOMAIN calls
    /\ calls[i].pc \in {"manifest", "metadata"}
    /\ calls' = Without(calls, i)
    /\ last' = Threw("initialize rejected")
    /\ UNCHANGED <<callFrame, isInitialized, hasEvListeners, tapped, audio>>

\* 'loadedmetadata' resumes call i (l. 641-653): it goes on to wait for a
\* click on this.playButton, which throws when that is null
LoadedMetadata(i) ==
    /\ variant = "MediaPipeline"
    /\ i \in DOMAIN calls
    /\ calls[i].pc = "metadata" /\ calls[i].on \notin removed
    /\ IF videoElement = NoElement
       THEN calls' = Without(calls, i) /\ last' = Threw("initialize rejected")
       ELSE /\ calls' = [calls EXCEPT ![i] = [pc |-> "click", on |-> videoElement]]
            /\ last' = Did("loadedmetadata")
    /\ UNCHANGED <<callFrame, isInitialized, hasEvListeners, tapped, audio>>

\* the click resumes call i (l. 649-685); createMediaElementSource throws on
\* a null element and on an element that already has a source node
Click(i) ==
    /\ variant = "MediaPipeline"
    /\ i \in DOMAIN calls
    /\ calls[i].pc = "click" /\ calls[i].on \notin removed
    /\ calls' = Without(calls, i)
    /\ IF videoElement = NoElement \/ tapped
       THEN /\ last' = Threw("initialize rejected")
            /\ audio' = [audio EXCEPT !.audioContext = TRUE]
            /\ UNCHANGED <<isInitialized, hasEvListeners, tapped>>
       ELSE /\ tapped' = TRUE
            /\ audio' = [audio EXCEPT !.audioContext = TRUE, !.taps = @ + 1]
            /\ hasEvListeners' = TRUE
            /\ isInitialized' = TRUE
            /\ last' = Did("initialized")
    /\ UNCHANGED callFrame

(***************************************************************************)
(* dispose(), play(), pause(), stop()                                      *)
(***************************************************************************)
\* _MP dispose (l. 1126-1160)
dispose ==
    /\ variant = "MediaPipeline"
    /\ SetTimer(stopVideoProcessing(timerState))
    /\ removed' = IF videoElement = NoElement THEN removed
                  ELSE removed \cup {videoElement}
    /\ videoElement' = NoElement
    /\ video' = FreshVideo
    /\ hasEvListeners' = FALSE
    /\ tapped' = FALSE
    /\ audio' = [audio EXCEPT !.audioContext = FALSE]
    /\ isInitialized' = FALSE
    /\ disposed' = TRUE
    /\ last' = Did("dispose")
    /\ UNCHANGED <<variant, waitVars, cvVars, feedVars, ringVars, created, calls, playVars,
                   textureRequirements, pace, lastFrameTime,
                   liveMats>>

\* HTMLMediaElement.play(): un-pauses; an ended element starts over
ElementPlay(v) ==
    [v EXCEPT !.paused = FALSE, !.ended = FALSE,
              !.currentTime = IF v.ended THEN 0 ELSE v.currentTime]

\* _MP play (l. 1082-1094)
play_MP ==
    /\ variant = "MediaPipeline"
    /\ video' = IF videoElement = NoElement THEN video ELSE ElementPlay(video)
    /\ last' = Did("play")
    /\ UNCHANGED <<variant, waitVars, cvVars, feedVars, ringVars, isInitialized, videoElement,
                   created, removed, hasEvListeners, tapped, audio,
                   calls, playVars,
                   textureRequirements, disposed, timerVars, pace, lastFrameTime,
                   liveMats>>

\* _MP pause (l. 1099-1103); _EE pause (l. 509-511) throws on a null element
pause ==
    /\ IF videoElement = NoElement
       THEN /\ last' = IF variant = "EventEmitter" THEN Threw("pause")
                       ELSE Did("pause")
            /\ UNCHANGED video
       ELSE /\ video' = [video EXCEPT !.paused = TRUE]
            /\ last' = Did("pause")
    /\ UNCHANGED <<variant, waitVars, cvVars, feedVars, ringVars, isInitialized, videoElement,
                   created, removed, hasEvListeners, tapped, audio,
                   calls, playVars,
                   textureRequirements, disposed, timerVars, pace, lastFrameTime,
                   liveMats>>

\* _MP seek (l. 1109-1113); a seek takes the element out of its ended state
seek_MP(time) ==
    /\ variant = "MediaPipeline"
    /\ video' = IF videoElement = NoElement THEN video
                ELSE [video EXCEPT !.currentTime = time, !.ended = FALSE]
    /\ last' = Did("seek")
    /\ UNCHANGED <<variant, waitVars, cvVars, feedVars, ringVars, isInitialized, videoElement,
                   created, removed, hasEvListeners, tapped, audio,
                   calls, playVars,
                   textureRequirements, disposed, timerVars, pace, lastFrameTime,
                   liveMats>>

\* _EE stop (l. 513-516): throws on a null element
stop_EE ==
    /\ variant = "EventEmitter"
    /\ IF videoElement = NoElement
       THEN last' = Threw("stop") /\ UNCHANGED video
       ELSE /\ video' = [video EXCEPT !.paused = TRUE, !.currentTime = 0,
                                      !.ended = FALSE]
            /\ last' = Did("stop")
    /\ UNCHANGED <<variant, waitVars, cvVars, feedVars, ringVars, isInitialized, videoElement,
                   created, removed, hasEvListeners, tapped, audio,
                   calls, playVars,
                   textureRequirements, disposed, timerVars, pace, lastFrameTime,
                   liveMats>>

\* _EE play (l. 436-507): waits for the media (readyState >= 2), adds a
\* 'playing' listener, then plays the element
play_EE ==
    /\ variant = "EventEmitter"
    /\ IF videoElement = NoElement
       THEN last' = Threw("play") /\ UNCHANGED <<video, playVars>>
       ELSE /\ playingListeners + pendingPlays < MaxPlays
            /\ last' = Did("play")
            /\ IF video.ready
               THEN /\ playingListeners' = playingListeners + 1
                    /\ video' = ElementPlay(video)
                    /\ UNCHANGED pendingPlays
               ELSE /\ pendingPlays' = pendingPlays + 1
                    /\ UNCHANGED <<video, playingListeners>>
    /\ UNCHANGED <<variant, waitVars, cvVars, feedVars, ringVars, isInitialized, videoElement,
                   created, removed, hasEvListeners, tapped, audio,
                   calls,
                   textureRequirements, disposed, timerVars, pace, lastFrameTime,
                   liveMats>>

(***************************************************************************)
(* The wait for the media of _EE play() (l. 444-479), step by step; play_EE *)
(* above is the same call with the wait taken as one step.  A wait is the  *)
(* promise of one play() call (state), its 30 s timer (timeout), whether a *)
(* setTimeout(checkMedia, 100) is pending (poll), and whether its          *)
(* 'loadeddata' and 'error' listeners are on the element.                  *)
(***************************************************************************)
\* the promise and the timer of l. 445-448, before checkMedia() runs
NewWait ==
    [state |-> "waiting", timeout |-> "pending", poll |-> FALSE,
     onLoaded |-> FALSE, onError |-> FALSE]

\* clearTimeout(timeout): nothing to clear once the timer has fired
clearTimeout(w) ==
    [w EXCEPT !.timeout = IF @ = "pending" THEN "cleared" ELSE @]

\* resolve() and reject() of the promise: a settled promise stays as it is
resolve(w) == [w EXCEPT !.state = IF @ = "waiting" THEN "resolved" ELSE @]
reject(w) == [w EXCEPT !.state = IF @ = "waiting" THEN "rejected" ELSE @]

\* handleLoaded (l. 461-465)
handleLoaded(w) == resolve(clearTimeout([w EXCEPT !.onLoaded = FALSE]))

\* this.dashPlayer is set: initialize() ran with a DASH manifest (l. 94-98)
dashPlayer == isDASH /\ videoElement # NoElement

\* checkMedia (l. 450-477) on an element that exists
checkMedia(w) ==
    IF dashPlayer
    THEN IF activeStream
         THEN resolve(clearTimeout(w))
         ELSE [w EXCEPT !.poll = TRUE]
    ELSE IF video.ready
         THEN handleLoaded(w)
         ELSE [w EXCEPT !.onLoaded = TRUE, !.onError = TRUE]

\* how many of the waits a step resolved
Resolved(before, after) ==
    Cardinality({i \in DOMAIN before :
                   before[i].state = "waiting" /\ after[i].state = "resolved"})

\* the play() calls whose wait resolved go on (l. 484-502): each adds a
\* 'playing' listener and plays the element
Resume(n) ==
    /\ playingListeners' = playingListeners + n
    /\ video' = IF n > 0 THEN ElementPlay(video) ELSE video

waitFrame == <<variant, cvVars, isDASH, feedVars, ringVars, isInitialized,
               videoElement, created, removed, hasEvListeners, tapped, audio,
               calls, pendingPlays, textureRequirements, disposed, timerVars,
               pace, lastFrameTime, liveMats>>

\* play() up to its await (l. 436-479).  Without an element this.dashPlayer
\* is null and this.videoElement.readyState throws inside the executor,
\* after the timer was set: the promise rejects.
playAwait_EE ==
    /\ variant = "EventEmitter"
    /\ Len(waits) < MaxPlays
    /\ IF videoElement = NoElement
       THEN /\ waits' = Append(waits, reject(NewWait))
            /\ Resume(0)
            /\ last' = Threw("play")
       ELSE /\ waits' = Append(waits, checkMedia(NewWait))
            /\ Resume(Resolved(Append(waits, NewWait), waits'))
            /\ last' = Did("play")
    /\ UNCHANGED <<waitFrame, activeStream>>

\* the 100 ms timer of wait i runs checkMedia again (l. 457)
PollMedia(i) ==
    /\ i \in DOMAIN waits
    /\ waits[i].poll
    /\ waits' = [waits EXCEPT ![i] = checkMedia([@ EXCEPT !.poll = FALSE])]
    /\ Resume(Resolved(waits, waits'))
    /\ last' = Did("poll")
    /\ UNCHANGED <<waitFrame, activeStream>>

\* the 30 s timer of wait i fires (l. 446-448)
WaitTimeout(i) ==
    /\ i \in DOMAIN waits
    /\ waits[i].timeout = "pending"
    /\ waits' = [waits EXCEPT ![i] = reject([@ EXCEPT !.timeout = "fired"])]
    /\ Resume(0)
    /\ last' = IF waits[i].state = "waiting" THEN Threw("play rejected")
               ELSE Did("wait timeout")
    /\ UNCHANGED <<waitFrame, activeStream>>

\* 'loadeddata': readyState reaches 2 and every handleLoaded listener runs
WaitLoadedData ==
    /\ videoElement # NoElement /\ ~video.ready
    /\ waits' = [i \in DOMAIN waits |->
                   IF waits[i].onLoaded THEN handleLoaded(waits[i])
                   ELSE waits[i]]
    /\ LET n == Resolved(waits, waits')
           v == [video EXCEPT !.ready = TRUE, !.hasDims = TRUE]
       IN /\ playingListeners' = playingListeners + n
          /\ video' = IF n > 0 THEN ElementPlay(v) ELSE v
    /\ last' = Did("loadeddata")
    /\ UNCHANGED <<waitFrame, activeStream>>

\* 'error' while the media loads: every once-listener of l. 472-474 rejects
\* (the 'error' listener of setupEventListeners finds no timer to clear, as
\* none starts before readyState is 2)
WaitError ==
    /\ videoElement # NoElement /\ ~video.ready
    /\ \E i \in DOMAIN waits : waits[i].onError
    /\ waits' = [i \in DOMAIN waits |->
                   IF waits[i].onError
                   THEN reject([waits[i] EXCEPT !.onError = FALSE])
                   ELSE waits[i]]
    /\ Resume(0)
    /\ last' = IF \E i \in DOMAIN waits :
                     waits[i].onError /\ waits[i].state = "waiting"
               THEN Threw("play rejected") ELSE Did("media error")
    /\ UNCHANGED <<waitFrame, activeStream>>

\* the DASH player gets its active stream
StreamActivates ==
    /\ dashPlayer /\ ~activeStream
    /\ activeStream' = TRUE
    /\ last' = Did("stream active")
    /\ UNCHANGED <<waitFrame, waits, video, playingListeners>>

(***************************************************************************)
(* connectAudioSource(audioExtension, sourceId)                            *)
(***************************************************************************)
\* the keys of audioExtension.sources
AudioSourceIds == {1, 2}

\* the sourceId arguments: 0 stands for a falsy one, 3 has no descriptor
AudioIds == {0, 1, 2, 3}

\* how `last` names the call
ConnectAudioOp(sourceId) ==
    IF sourceId \in AudioSourceIds THEN "connectAudioSource"
    ELSE "connectAudioSource, no descriptor"

\* this.audioContext.createMediaElementSource(this.videoElement): throws on
\* a null element and on an element that already has a source node
CanTap == videoElement # NoElement /\ ~tapped

\* mediaElementSource.connect(source.gainNode)
Linked(a, sourceId) == [a EXCEPT !.links = @ \cup {sourceId}]

\* _EE (l. 319-358): every failure is logged, none is thrown
connectAudioSource_EE(sourceId) ==
    /\ variant = "EventEmitter"
    /\ last' = Did(ConnectAudioOp(sourceId))
    /\ IF sourceId = 0 \/ sourceId \notin AudioSourceIds
       THEN UNCHANGED <<audio, tapped>>
       ELSE LET a == [audio EXCEPT !.audioContext = TRUE]
            IN  IF a.mediaElementSource
                THEN audio' = Linked(a, sourceId) /\ UNCHANGED tapped
                ELSE IF CanTap
                THEN /\ tapped' = TRUE
                     /\ audio' = Linked([a EXCEPT !.mediaElementSource = TRUE,
                                                  !.taps = @ + 1], sourceId)
                ELSE \* createMediaElementSource throws; caught (l. 355-357)
                     audio' = a /\ UNCHANGED tapped
    /\ UNCHANGED <<variant, waitVars, cvVars, feedVars, ringVars, isInitialized, videoElement,
                   created, removed, video, hasEvListeners, calls, playVars,
                   textureRequirements, disposed, timerVars, pace,
                   lastFrameTime,
                   liveMats>>

\* _MP (l. 1055-1077)
connectAudioSource_MP(sourceId) ==
    /\ variant = "MediaPipeline"
    /\ IF sourceId \notin AudioSourceIds
       THEN \* throws "Audio source ... not found"
            last' = Threw(ConnectAudioOp(sourceId)) /\ UNCHANGED <<audio, tapped>>
       ELSE IF ~audio.audioContext \/ ~CanTap
       THEN \* this.audioContext is null, or createMediaElementSource throws
            last' = Threw(ConnectAudioOp(sourceId)) /\ UNCHANGED <<audio, tapped>>
       ELSE /\ tapped' = TRUE
            /\ audio' = Linked([audio EXCEPT !.taps = @ + 1], sourceId)
            /\ last' = Did(ConnectAudioOp(sourceId))
    /\ UNCHANGED <<variant, waitVars, cvVars, feedVars, ringVars, isInitialized, videoElement,
                   created, removed, video, hasEvListeners, calls, playVars,
                   textureRequirements, disposed, timerVars, pace,
                   lastFrameTime,
                   liveMats>>

(***************************************************************************)
(* The video element: what the browser does to it and the events it fires  *)
(***************************************************************************)
mediaFrame == <<variant, waitVars, cvVars, feedVars, ringVars, isInitialized, videoElement,
                created, removed, hasEvListeners, tapped, audio,
                   calls,
                textureRequirements, disposed, timerVars, pace, lastFrameTime,
                   liveMats>>

\* 'loadeddata': readyState reaches 2; the play() calls of the _EE class
\* that wait for it go on (l. 461-465, 484-502).  dims: the media has a video
\* track, so that videoWidth and videoHeight are not zero
LoadedMedia(dims) ==
    /\ videoElement # NoElement /\ ~video.ready
    /\ video' = IF pendingPlays > 0
                THEN ElementPlay([video EXCEPT !.ready = TRUE, !.hasDims = dims])
                ELSE [video EXCEPT !.ready = TRUE, !.hasDims = dims]
    /\ playingListeners' = playingListeners + pendingPlays
    /\ pendingPlays' = 0
    /\ last' = Did("loadeddata")
    /\ UNCHANGED mediaFrame

\* 'loadeddata' of a media with a video track
LoadedData == LoadedMedia(TRUE)

\* playback reaches the end of the stream: the element pauses and ends
MediaEnds ==
    /\ videoElement # NoElement /\ video.ready /\ ~video.paused
    /\ video' = [video EXCEPT !.ended = TRUE, !.paused = TRUE]
    /\ last' = Did("media ends")
    /\ UNCHANGED <<mediaFrame, playVars>>

\* playback advances currentTime by d
TimeAdvance(d) ==
    /\ videoElement # NoElement /\ video.ready /\ ~video.paused
    /\ video.currentTime + d <= MaxTime
    /\ video' = [video EXCEPT !.currentTime = @ + d]
    /\ last' = Did("time")
    /\ UNCHANGED <<mediaFrame, playVars>>

eventFrame == <<variant, waitVars, cvVars, feedVars, ringVars, lifeVars, lastFrameTime,
                   liveMats>>

NoPace == [gap |-> 0, procBefore |-> NoTime, proc |-> NoTime]

\* 'playing' on the _EE class: the listener of setupEventListeners
\* (l. 123-126) and each listener play() added (l. 484-496)
EvPlaying(T) ==
    /\ variant = "EventEmitter"
    /\ videoElement # NoElement /\ video.ready /\ ~video.paused
    /\ hasEvListeners \/ playingListeners > 0
    /\ SetTimer(StartTimes(timerState,
                           (IF hasEvListeners THEN 1 ELSE 0) + playingListeners,
                           video.ready, T))
    /\ pace' = IF videoProcessingInterval = NoTimer THEN NoPace ELSE pace
    /\ last' = Did("playing")
    /\ UNCHANGED eventFrame

(***************************************************************************)
(* The frame rate of startVideoProcessing (l. 181-188).  A JavaScript      *)
(* number is a record: NaN, Infinity, or the quotient num / den, in frames *)
(* per unit of time, with num >= 0 and den > 0.                            *)
(***************************************************************************)
NaN == [kind |-> "NaN", num |-> 0, den |-> 1]
Infinity == [kind |-> "Infinity", num |-> 1, den |-> 1]
Finite(n, d) == [kind |-> "finite", num |-> n, den |-> d]

\* getVideoPlaybackQuality is missing: the optional chain gives undefined
NoQuality == -1

\* totalVideoFrames of getVideoPlaybackQuality(), or NoQuality
TotalVideoFrames == {NoQuality, 0, 1}

\* totalVideoFrames / currentTime
Quotient(total, currentTime) ==
    IF total = NoQuality THEN NaN
    ELSE IF currentTime = 0
    THEN (IF total = 0 THEN NaN ELSE Infinity)
    ELSE Finite(total, currentTime)

\* x is falsy: "x || 30" takes 30
Falsy(x) == x.kind = "NaN" \/ (x.kind = "finite" /\ x.num = 0)

\* 30 frames per second: one frame every 4 units of 1/120 s
ThirtyFps == Finite(1, 4)

\* "totalVideoFrames / currentTime || 30" (l. 181)
frameRate(total, currentTime) ==
    IF Falsy(Quotient(total, currentTime)) THEN ThirtyFps
    ELSE Quotient(total, currentTime)

\* "1000 / frameRate" (l. 188), in units of 1/120 s
targetIntervalOf(rate) ==
    IF rate.kind = "Infinity" THEN 0 ELSE rate.den \div rate.num

\* 'playing' on the _EE class, with the frame rate measured as the code
\* measures it
EvPlayingMeasured(total) ==
    EvPlaying(targetIntervalOf(frameRate(total, video.currentTime)))

\* 'play' on the _MP class (l. 697-699)
EvPlay ==
    /\ variant = "MediaPipeline"
    /\ hasEvListeners /\ ~video.paused
    /\ SetTimer(startVideoProcessing_MP(timerState, video.ready))
    /\ last' = Did("play event")
    /\ UNCHANGED <<eventFrame, pace>>

\* 'pause' (l. 129-132 and l. 701-703)
EvPause ==
    /\ hasEvListeners /\ video.paused
    /\ SetTimer(stopVideoProcessing(timerState))
    /\ last' = Did("pause event")
    /\ UNCHANGED <<eventFrame, pace>>

\* 'ended': the _EE class stops processing (l. 134-138), the _MP class only
\* emits 'ended' (l. 705-707)
EvEnded ==
    /\ hasEvListeners /\ video.ended
    /\ SetTimer(IF variant = "EventEmitter" THEN stopVideoProcessing(timerState)
                ELSE timerState)
    /\ last' = Did("ended event")
    /\ UNCHANGED <<eventFrame, pace>>

\* 'error': the _EE class stops processing (l. 141-144), the _MP class has
\* no listener for it (l. 695-708)
EvError ==
    /\ hasEvListeners
    /\ SetTimer(IF variant = "EventEmitter" THEN stopVideoProcessing(timerState)
                ELSE timerState)
    /\ last' = Did("error event")
    /\ UNCHANGED <<eventFrame, pace>>

(***************************************************************************)
(* Initial states: a constructed pipeline (l. 54-75, l. 526-546) and the   *)
(* texture extension's rings, empty.  The ring of source 1 takes every     *)
(* maxFrames and shortfall; the ring of source 2 holds one whole frame.    *)
(***************************************************************************)
NewRing(s, mf, short) ==
    [capacity |-> mf * mpegTextureInfo(s).frameSize - short,
     maxFrames |-> mf, count |-> 0, buf |-> <<>>, ops |-> <<>>,
     broken |-> FALSE, admit |-> "idle"]

\* kinds: whether the manifest URL given to initialize() is a DASH one
ConstructedFor(vs, mfs, shs, reqs, kinds) ==
    /\ variant \in vs
    /\ isDASH \in kinds
    /\ activeStream = FALSE
    /\ waits = <<>>
    /\ openCVPromise = NoPromise
    /\ cvPromises = <<>>
    /\ scripts = 0
    /\ cvCalls = <<>>
    /\ videoSources = {}
    /\ listeners = <<>>
    /\ videoSource = NoSource
    /\ targetDims = <<0, 0>>
    /\ \E mf \in mfs, sh \in shs :
          ring = [s \in SourceIds |->
                    IF s = 1 THEN NewRing(s, mf, sh) ELSE NewRing(s, 1, 0)]
    /\ frame = [width |-> 0, height |-> 0, len |-> 0, timestamp |-> NoTime]
    /\ adm = [s \in SourceIds |-> 0]
    /\ onlyValid = [s \in SourceIds |-> TRUE]
    /\ prevEmitTime = NoTime
    /\ isInitialized = FALSE
    /\ videoElement = NoElement
    /\ created = 0
    /\ removed = {}
    /\ calls = <<>>
    /\ video = FreshVideo
    /\ hasEvListeners = FALSE
    /\ tapped = FALSE
    /\ audio = NoAudio
    /\ playingListeners = 0
    /\ pendingPlays = 0
    /\ textureRequirements \in reqs
    /\ videoProcessingInterval = NoTimer
    /\ timers = 0
    /\ disposed = FALSE
    /\ targetInterval = 0
    /\ sinceLast = 0
    /\ frameDelay = 0
    /\ pace = [gap |-> 0, procBefore |-> NoTime, proc |-> NoTime]
    /\ lastFrameTime = NoTime
    /\ liveMats = 0
    /\ last = Did("constructor")

\* a pipeline that is given an MP4 URL
Constructed(vs, mfs, shs, reqs) == ConstructedFor(vs, mfs, shs, reqs, {FALSE})

(***************************************************************************)
(* The frame feed: connectVideoTexture and 'videoFrame' events.            *)
(***************************************************************************)
InitFeed == Constructed(Variants, 1..MaxFramesCap, Shortfalls, {<<1, 1>>})

NextFeed ==
    \/ \E sourceId \in SourceArgs : connectVideoTexture_EE(sourceId)
    \/ \E sourceId \in SourceArgs : connectVideoTexture_MP(sourceId)
    \/ \E d \in FrameDims, len \in FrameLens : EmitVideoFrame(d, len)

SpecFeed == InitFeed /\ [][NextFeed]_vars

(***************************************************************************)
(* The lifecycle of both classes, with one texture bound.                  *)
(***************************************************************************)
InitLife == Constructed(Variants, {1}, {0}, {<<1, 1>>})

NextLife ==
    \/ initialize_EE
    \/ \E req \in {NoReq} : initialize_MP(req)
    \/ \E i \in 1..MaxInits : ManifestLoaded(i)
    \/ \E i \in 1..MaxInits : LoadedMetadata(i)
    \/ \E i \in 1..MaxInits : Click(i)
    \/ \E i \in 1..MaxInits : InitTimeout(i)
    \/ dispose
    \/ play_EE
    \/ play_MP
    \/ pause
    \/ \E time \in {0} : seek_MP(time)
    \/ stop_EE
    \/ LoadedData
    \/ MediaEnds
    \/ \E T \in {4} : EvPlaying(T)
    \/ EvPlay
    \/ EvPause
    \/ EvEnded
    \/ EvError
    \/ \E p \in {0} : Tick_EE(p)
    \/ Tick_MP
    \/ \E sourceId \in {1, 4} : connectVideoTexture_EE(sourceId)
    \/ \E sourceId \in {1, 4} : connectVideoTexture_MP(sourceId)

Spec == InitLife /\ [][NextLife]_vars

(***************************************************************************)
(* Capture of the EventEmitter class against the media clock.              *)
(***************************************************************************)
InitCapture == Constructed({"EventEmitter"}, {1}, {0}, {<<1, 1>>})

NextCapture ==
    \/ initialize_EE
    \/ LoadedData
    \/ play_EE
    \/ pause
    \/ \E T \in {4} : EvPlaying(T)
    \/ EvPause
    \/ \E d \in {1, 2} : TimeAdvance(d)
    \/ \E p \in {0} : Tick_EE(p)
    \/ \E sourceId \in {1} : connectVideoTexture_EE(sourceId)

SpecCapture == InitCapture /\ [][NextCapture]_vars

(***************************************************************************)
(* The pacing loop of the EventEmitter class.                              *)
(***************************************************************************)
NextPace ==
    \/ initialize_EE
    \/ LoadedData
    \/ play_EE
    \/ pause
    \/ \E T \in TargetIntervals : EvPlaying(T)
    \/ EvPause
    \/ \E p \in 0..MaxProc : Tick_EE(p)

SpecPace == InitCapture /\ [][NextPace]_vars

(***************************************************************************)
(* The EventEmitter class with the frame rate measured at each 'playing'.  *)
(***************************************************************************)
NextRate ==
    \/ initialize_EE
    \/ LoadedData
    \/ play_EE
    \/ pause
    \/ \E total \in TotalVideoFrames : EvPlayingMeasured(total)
    \/ EvPause
    \/ \E d \in {1, 2} : TimeAdvance(d)
    \/ \E p \in {0} : Tick_EE(p)

SpecRate == InitCapture /\ [][NextRate]_vars

(***************************************************************************)
(* Capture and conversion in both classes, for several target dimensions.  *)
(***************************************************************************)
TargetReqs == {<<1, 1>>, <<2, 1>>}

InitConvert == Constructed(Variants, {1}, {0}, TargetReqs)

NextConvert ==
    \/ initialize_EE
    \/ \E req \in {NoReq} \cup TargetReqs : initialize_MP(req)
    \/ \E i \in 1..MaxInits : ManifestLoaded(i)
    \/ \E i \in 1..MaxInits : LoadedMetadata(i)
    \/ \E i \in 1..MaxInits : Click(i)
    \/ play_EE
    \/ play_MP
    \/ LoadedData
    \/ \E T \in {4} : EvPlaying(T)
    \/ EvPlay
    \/ \E p \in {0} : Tick_EE(p)
    \/ Tick_MP
    \/ \E sourceId \in SourceIds : connectVideoTexture_EE(sourceId)
    \/ \E sourceId \in SourceIds : connectVideoTexture_MP(sourceId)

SpecConvert == InitConvert /\ [][NextConvert]_vars

(***************************************************************************)
(* The lifecycle with the timers of the event loop: a timeout that stays   *)
(* pending fires.  Nothing makes the manifest load, the metadata arrive or *)
(* the user click.                                                         *)
(***************************************************************************)
SpecLive ==
    /\ InitLife
    /\ [][NextLife]_vars
    /\ WF_vars(\E i \in 1..MaxInits : InitTimeout(i))

(***************************************************************************)
(* Both classes with the media clock, the end of the media and media       *)
(* without a video track.                                                  *)
(***************************************************************************)
InitEmit == Constructed(Variants, {1}, {0}, {<<1, 1>>})

NextEmit ==
    \/ initialize_EE
    \/ \E req \in {NoReq} : initialize_MP(req)
    \/ \E i \in {1} : ManifestLoaded(i)
    \/ \E i \in {1} : LoadedMetadata(i)
    \/ \E i \in {1} : Click(i)
    \/ play_EE
    \/ play_MP
    \/ pause
    \/ \E dims \in BOOLEAN : LoadedMedia(dims)
    \/ MediaEnds
    \/ \E d \in {1} : TimeAdvance(d)
    \/ \E T \in {4} : EvPlaying(T)
    \/ EvPlay
    \/ EvPause
    \/ \E p \in {0} : Tick_EE(p)
    \/ Tick_MP
    \/ \E sourceId \in SourceIds : connectVideoTexture_EE(sourceId)
    \/ \E sourceId \in {1} : connectVideoTexture_MP(sourceId)

SpecEmit == InitEmit /\ [][NextEmit]_vars

(***************************************************************************)
(* Both classes with captures that throw and rings that throw.             *)
(***************************************************************************)
InitFault == Constructed(Variants, {1}, {0}, {<<1, 1>>, <<0, 1>>})

NextFault ==
    \/ initialize_EE
    \/ \E req \in {NoReq} : initialize_MP(req)
    \/ \E i \in 1..MaxInits : ManifestLoaded(i)
    \/ \E i \in 1..MaxInits : LoadedMetadata(i)
    \/ \E i \in 1..MaxInits : Click(i)
    \/ play_EE
    \/ play_MP
    \/ pause
    \/ LoadedData
    \/ \E T \in {4} : EvPlaying(T)
    \/ EvPlay
    \/ EvPause
    \/ \E p \in {0} : Tick_EE(p)
    \/ Tick_MP
    \/ \E p \in {0} : FaultyTick_EE(p)
    \/ FaultyTick_MP
    \/ \E s \in {1} : RingBreaks(s)
    \/ \E sourceId \in {1} : connectVideoTexture_EE(sourceId)
    \/ \E sourceId \in {1} : connectVideoTexture_MP(sourceId)

SpecFault == InitFault /\ [][NextFault]_vars

(***************************************************************************)
(* The EventEmitter class's admission interleaved with the consumer.       *)
(***************************************************************************)
InitDrain == Constructed({"EventEmitter"}, 1..MaxFramesCap, {0}, {<<1, 1>>})

NextDrain ==
    \/ \E sourceId \in {1} : connectVideoTexture_EE(sourceId)
    \/ \E s \in {1} : frameHandlerTest(s)
    \/ \E s \in {1} : frameHandlerPop(s)
    \/ \E s \in {1} : frameHandlerDecrement(s)
    \/ \E s \in {1} : frameHandlerPush(s)
    \/ \E s \in {1} : frameHandlerIncrement(s)
    \/ \E s \in {1} : Drain(s)

SpecDrain == InitDrain /\ [][NextDrain]_vars

(***************************************************************************)
(* Both classes with initialize and connectAudioSource.                    *)
(***************************************************************************)
NextAudio ==
    \/ initialize_EE
    \/ \E req \in {NoReq} : initialize_MP(req)
    \/ \E i \in 1..MaxInits : ManifestLoaded(i)
    \/ \E i \in 1..MaxInits : LoadedMetadata(i)
    \/ \E i \in 1..MaxInits : InitTimeout(i)
    \/ \E i \in 1..MaxInits : Click(i)
    \/ \E sourceId \in AudioIds : connectAudioSource_EE(sourceId)
    \/ \E sourceId \in AudioIds : connectAudioSource_MP(sourceId)

SpecAudio == InitLife /\ [][NextAudio]_vars

(***************************************************************************)
(* The EventEmitter class with the media clock and stop().                 *)
(***************************************************************************)
NextRewind ==
    \/ initialize_EE
    \/ LoadedData
    \/ play_EE
    \/ pause
    \/ stop_EE
    \/ \E T \in {4} : EvPlaying(T)
    \/ EvPause
    \/ \E d \in {1, 2} : TimeAdvance(d)
    \/ \E p \in {0} : Tick_EE(p)

SpecRewind == InitCapture /\ [][NextRewind]_vars

(***************************************************************************)
(* play() of the _EE class waiting for its media, for an MP4 URL and for a *)
(* DASH manifest.                                                          *)
(***************************************************************************)
InitWait ==
    ConstructedFor({"EventEmitter"}, {1}, {0}, {<<1, 1>>}, {TRUE, FALSE})

NextWait ==
    \/ initialize_EE
    \/ playAwait_EE
    \/ \E i \in 1..MaxPlays : PollMedia(i)
    \/ \E i \in 1..MaxPlays : WaitTimeout(i)
    \/ WaitLoadedData
    \/ WaitError
    \/ StreamActivates
    \/ pause

SpecWait == InitWait /\ [][NextWait]_vars

(***************************************************************************)
(* The OpenCV.js loader: initOpenCV() and getCV() (l. 1-44).  A promise is *)
(* its state and whether its executor appended the script element.         *)
(***************************************************************************)
\* a call that returned: the promise it got, and the outcome its caller has
\* seen in a then/catch callback
Returned(p) == [promise |-> p, seen |-> "none"]

\* resolve() or reject() of a promise: only a pending promise changes
settle(state, outcome) == IF state = "pending" THEN outcome ELSE state

\* the executor (l. 9-33); without a document.body, appendChild throws
\* inside it and the new promise is rejected
executor(body) ==
    [state |-> IF body THEN "pending" ELSE "rejected", script |-> body]

loaderFrame == <<variant, waitVars, feedVars, ringVars, lifeVars, timerVars,
                 pace, lastFrameTime, liveMats>>

\* mutant: initOpenCV without the check of openCVPromise
initOpenCVNoMemo(body) ==
    /\ Len(cvCalls) < MaxCvCalls
    /\ cvPromises' = Append(cvPromises, executor(body))
    /\ scripts' = scripts + (IF body THEN 1 ELSE 0)
    /\ openCVPromise' = Len(cvPromises) + 1
    /\ cvCalls' = Append(cvCalls, Returned(Len(cvPromises) + 1))
    /\ last' = Did("initOpenCV")
    /\ UNCHANGED loaderFrame

\* initOpenCV (l. 4-36); body: document.body exists
initOpenCV(body) ==
    /\ Len(cvCalls) < MaxCvCalls
    /\ IF openCVPromise # NoPromise
       THEN /\ cvCalls' = Append(cvCalls, Returned(openCVPromise))
            /\ UNCHANGED <<openCVPromise, cvPromises, scripts>>
       ELSE /\ cvPromises' = Append(cvPromises, executor(body))
            /\ scripts' = scripts + (IF body THEN 1 ELSE 0)
            /\ openCVPromise' = Len(cvPromises) + 1
            /\ cvCalls' = Append(cvCalls, Returned(Len(cvPromises) + 1))
    /\ last' = Did("initOpenCV")
    /\ UNCHANGED loaderFrame

\* getCV (l. 39-44)
getCV ==
    /\ IF openCVPromise = NoPromise
       THEN last' = Threw("getCV") /\ UNCHANGED cvCalls
       ELSE /\ Len(cvCalls) < MaxCvCalls
            /\ cvCalls' = Append(cvCalls, Returned(openCVPromise))
            /\ last' = Did("getCV")
    /\ UNCHANGED <<loaderFrame, openCVPromise, cvPromises, scripts>>

\* a callback of the script of promise i settles it
Settles(i, outcome, op) ==
    /\ i \in DOMAIN cvPromises
    /\ cvPromises[i].script
    /\ cvPromises' = [cvPromises EXCEPT ![i].state = settle(@, outcome)]
    /\ last' = Did(op)
    /\ UNCHANGED <<loaderFrame, openCVPromise, scripts, cvCalls>>

\* Module.onRuntimeInitialized (l. 12-15)
RuntimeInitialized(i) == Settles(i, "resolved", "onRuntimeInitialized")

\* Module.printErr (l. 19-22): the runtime may print an error at any time
PrintErr(i) == Settles(i, "rejected", "printErr")

\* script.onerror (l. 29-31)
ScriptError(i) == Settles(i, "rejected", "script.onerror")

\* the then/catch callback of the caller of call k runs
Observe(k) ==
    /\ k \in DOMAIN cvCalls
    /\ cvCalls[k].seen = "none"
    /\ cvPromises[cvCalls[k].promise].state # "pending"
    /\ cvCalls' = [cvCalls EXCEPT
                     ![k].seen = cvPromises[cvCalls[k].promise].state]
    /\ last' = Did("observe")
    /\ UNCHANGED <<loaderFrame, openCVPromise, cvPromises, scripts>>

InitLoader == Constructed({"MediaPipeline"}, {1}, {0}, {<<1, 1>>})

NextLoader ==
    \/ \E body \in BOOLEAN : initOpenCV(body)
    \/ getCV
    \/ \E i \in 1..MaxCvCalls : RuntimeInitialized(i)
    \/ \E i \in 1..MaxCvCalls : PrintErr(i)
    \/ \E i \in 1..MaxCvCalls : ScriptError(i)
    \/ \E k \in 1..MaxCvCalls : Observe(k)

SpecLoader == InitLoader /\ [][NextLoader]_vars

(***************************************************************************)
(* Properties                                                              *)
(***************************************************************************)
\* the ring of source s is fed by a registered 'videoFrame' listener
Bound(s) ==
    IF variant = "EventEmitter"
    THEN \E i \in 1..Len(listeners) : listeners[i] = s /\ s \in videoSources
    ELSE listeners # <<>> /\ videoSource = s

\* C1: after any sequence of videoFrame admissions into a bound ring, count
\* never exceeds maxFrames, and every pop the frame handler makes is the one
\* eviction that comes immediately before the push of the new frame.
C1_CountWithinMaxFrames ==
    \A s \in SourceIds :
        /\ ring[s].count <= ring[s].maxFrames
        /\ \A i \in 1..Len(ring[s].ops) :
              ring[s].ops[i] = "pop" =>
                  /\ i < Len(ring[s].ops)
                  /\ ring[s].ops[i + 1] = "push"

\* C1 witness: a full ring admitted a frame after evicting one
C1_Witness ==
    \E s \in SourceIds :
        /\ variant = "EventEmitter"
        /\ last.op = "videoFrame"
        /\ ring[s].ops = <<"pop", "push">>
        /\ ring[s].count = ring[s].maxFrames

\* C2: with no consumer, once more than maxFrames valid frames have been
\* admitted into a ring that can hold maxFrames frames, count is maxFrames
\* and the ring holds exactly the last maxFrames frames, oldest first.
C2_KeepsLastMaxFrames ==
    \A s \in SourceIds :
        LET rb == ring[s]
            size == mpegTextureInfo(s).frameSize
        IN  ( /\ variant = "EventEmitter"
              /\ onlyValid[s]
              /\ rb.capacity >= rb.maxFrames * size
              /\ adm[s] > rb.maxFrames )
            => /\ rb.count = rb.maxFrames
               /\ rb.buf = [i \in 1..(rb.maxFrames * size) |->
                              (adm[s] - rb.maxFrames + ((i - 1) \div size))
                                  % IdMod]

\* C2 witness: more than maxFrames >= 2 valid frames went into one ring
C2_Witness ==
    \E s \in SourceIds :
        /\ variant = "EventEmitter"
        /\ last.op = "videoFrame"
        /\ onlyValid[s]
        /\ ring[s].maxFrames >= 2
        /\ ring[s].capacity >= ring[s].maxFrames * mpegTextureInfo(s).frameSize
        /\ adm[s] > ring[s].maxFrames
        /\ ring[s].ops = <<"pop", "push">>

\* C3 (as stated): a videoFrame whose payload length differs from the frame
\* byte size of a source's TargetSpec leaves that source's ring alone:
\* nothing pushed, nothing popped, count unchanged.
C3_WrongLengthDropped ==
    [][ last'.emitted =>
          \A s \in SourceIds :
              frame'.len # mpegTextureInfo(s).frameSize
                  => ring'[s] = [ring[s] EXCEPT !.ops = <<>>] ]_vars

\* C4: a videoFrame whose width or height differs from the mpegTextureInfo
\* of a source leaves that source's ring alone: nothing pushed, nothing
\* popped, count unchanged.
C4_DimensionMismatchDropped ==
    [][ last'.emitted =>
          \A s \in SourceIds :
              ( \/ frame'.width # mpegTextureInfo(s).width
                \/ frame'.height # mpegTextureInfo(s).height )
                  => ring'[s] = [ring[s] EXCEPT !.ops = <<>>] ]_vars

\* C4 witness: a bound ring holding a frame was sent a frame of other
\* dimensions and made no ring call
C4_Witness ==
    \E s \in SourceIds :
        /\ last.op = "videoFrame"
        /\ Bound(s)
        /\ ( \/ frame.width # mpegTextureInfo(s).width
             \/ frame.height # mpegTextureInfo(s).height )
        /\ ring[s].buf # <<>>
        /\ ring[s].ops = <<>>

\* C5 (as stated): dispose() leaves no pacing timer, and once dispose() has
\* been called no videoFrame is emitted any more.
C5_NoFrameAfterDispose ==
    /\ last.op = "dispose" =>
          videoProcessingInterval = NoTimer /\ timers = 0 /\ ~isInitialized
    /\ disposed => ~last.emitted

\* C6 (as stated): connectVideoTexture on a pipeline that is not initialized
\* throws and installs nothing: no videoSources entry, no listener.
C6_ConnectBeforeReadyFails ==
    (last.op = "connectVideoTexture" /\ ~isInitialized)
        => /\ last.threw
           /\ listeners = <<>>
           /\ videoSources = {}
           /\ videoSource = NoSource

\* C7: an initialize() call made when isInitialized is true changes nothing
\* of the pipeline: no element, listener set or pending call is created.
C7_InitializeIdempotent ==
    [][ (isInitialized /\ last'.op = "initialize") => UNCHANGED stateVars ]_vars

\* C7 witness: initialize() returned on an initialized pipeline whose pacing
\* timer is running
C7_Witness ==
    /\ last.op = "initialize"
    /\ isInitialized
    /\ created = 1
    /\ videoProcessingInterval # NoTimer

\* C8: at most one pacing timer is live, videoProcessingInterval is set
\* exactly when one is, and after a step that calls stopVideoProcessing
\* (the 'pause' listener, dispose(), and the 'error' listener of the
\* EventEmitter class) none is.
C8_AtMostOneTimer ==
    /\ timers <= 1
    /\ (timers = 1) <=> (videoProcessingInterval # NoTimer)
    /\ ( \/ last.op \in {"pause event", "dispose"}
         \/ last.op = "error event" /\ variant = "EventEmitter" ) =>
          timers = 0 /\ videoProcessingInterval = NoTimer

\* C8 witness: a 'playing' event ran the base listener and a listener added
\* by play(), and one timer is live
C8_Witness ==
    /\ last.op = "playing"
    /\ variant = "EventEmitter"
    /\ playingListeners >= 1
    /\ timers = 1

\* C9 (as stated): two emitted videoFrames are never less than 1/60 s of
\* media time apart.
C9_EmittedFramesSpaced ==
    (last.emitted /\ prevEmitTime # NoTime)
        => frame.timestamp - prevEmitTime >= MinSpacing

\* C10 (as stated): after a capture that took longer than the target
\* interval, the next capture starts no later than one scheduler tick after
\* the target interval.
C10_NextCaptureWithinOneTick ==
    (last.op = "tick" /\ pace.procBefore > targetInterval)
        => pace.gap <= targetInterval + Period(targetInterval)

\* C10 (amended): the next capture starts no later than one scheduler tick
\* after the later of the target interval and the return of the capture
\* before it; the bound depends on that one capture only.
C10_NextCaptureBound ==
    (last.op = "tick" /\ pace.procBefore # NoTime)
        => pace.gap <= Max(targetInterval, pace.procBefore)
                          + Period(targetInterval)

\* C10 witness: a capture that followed one running past the target
\* interval by more than a tick
C10_Witness ==
    /\ last.op = "tick"
    /\ pace.procBefore # NoTime
    /\ pace.procBefore > targetInterval + Period(targetInterval)
    /\ pace.gap = pace.procBefore

\* C11 (as stated): whatever the playback-quality API reports when the
\* pacing timer is started, the target interval of the running timer is a
\* finite positive number.
C11_TargetIntervalPositive ==
    (variant = "EventEmitter" /\ videoProcessingInterval # NoTimer)
        => targetInterval > 0

\* C12: every videoFrame a capture emits has the width and height of
\* textureRequirements and a data length of width * height * 4, whatever
\* the resolution of the source.
C12_EmittedFrameMatchesTarget ==
    (last.op = "tick" /\ last.emitted)
        => /\ frame.width = textureRequirements[1]
           /\ frame.height = textureRequirements[2]
           /\ frame.len = textureRequirements[1] * textureRequirements[2]
                             * BytesPerPixel

\* C12 witness: the MediaPipeline class emitted a 2x1 frame, a size no source
\* has
C12_Witness ==
    /\ last.op = "tick" /\ last.emitted
    /\ variant = "MediaPipeline"
    /\ <<frame.width, frame.height>> = <<2, 1>>
    /\ <<2, 1>> \notin SourceDims

\* the public methods of the pipeline, as named in `last`
PublicCalls ==
    {"initialize", "connectVideoTexture", "connectAudioSource", "play",
     "pause", "seek", "dispose"}

\* C13 (as stated): once dispose() has been called, a public call changes
\* nothing of the pipeline: no element, timer, listener or binding is created.
C13_CallsAfterDisposeAreNoOps ==
    [][ (disposed /\ last'.op \in PublicCalls) => UNCHANGED stateVars ]_vars

\* C14 (as stated): stop(), pause() and dispose() never throw, whatever the
\* state of the pipeline, and dispose() leaves neither a pacing timer nor a
\* pending initialization timeout.
C14_CancelIsSafe ==
    /\ last.op \in {"stop", "pause", "dispose"} => ~last.threw
    /\ last.op = "dispose" =>
          /\ timers = 0
          /\ \A i \in DOMAIN calls : calls[i].pc \notin {"manifest", "metadata"}

\* C15 (as stated): an initialize() call that is waiting eventually settles:
\* it completes or it rejects, so that no call stays pending for ever.
C15_InitializeSettles == (calls # <<>>) ~> (calls = <<>>)

\* C16: a tick never throws and never changes the pacing timer, whether the
\* capture throws or a ring throws; a tick whose capture throws emits
\* nothing and leaves the rings alone, and a ring that throws admits nothing.
C16_FrameFailureContained ==
    [][ last'.op \in {"tick", "tick, capture throws"} =>
          /\ ~last'.threw
          /\ timers' = timers
          /\ videoProcessingInterval' = videoProcessingInterval
          /\ last'.op = "tick, capture throws" =>
                ~last'.emitted /\ ring' = ring /\ adm' = adm
          /\ \A s \in SourceIds :
                ring[s].broken =>
                    /\ ring'[s].buf = ring[s].buf
                    /\ ring'[s].count = ring[s].count ]_vars

\* C16 witness: a capture threw in a tick while the timer was running, with
\* a listener bound, and the timer is still running
C16_Witness ==
    /\ last.op = "tick, capture throws"
    /\ ~last.threw
    /\ listeners # <<>>
    /\ lastFrameTime # NoTime
    /\ timers = 1 /\ videoProcessingInterval # NoTimer

\* the number of "push" entries of a ring's record of calls
RECURSIVE Pushes(_)
Pushes(ops) ==
    IF ops = <<>> THEN 0
    ELSE (IF Head(ops) = "push" THEN 1 ELSE 0) + Pushes(Tail(ops))

\* the listeners that write the frame f to the ring of source s when called
Writers(s, f) ==
    {i \in 1..Len(listeners) :
        /\ TargetOf(listeners[i]) = s
        /\ ~ring[s].broken
        /\ IF variant = "EventEmitter"
           THEN /\ f.width = mpegTextureInfo(s).width
                /\ f.height = mpegTextureInfo(s).height
           ELSE /\ f.width = targetDims[1] /\ f.height = targetDims[2]
                /\ f.len = targetDims[1] * targetDims[2] * BytesPerPixel}

\* a guard of processVideoFrame returns before the capture
Aborted ==
    \/ videoElement = NoElement
    \/ video.paused
    \/ video.ended
    \/ ~video.hasDims
    \/ /\ variant = "EventEmitter"
       /\ lastFrameTime # NoTime /\ lastFrameTime # 0
       /\ video.currentTime - lastFrameTime < MinSpacing

\* C17: a tick that a guard aborts emits nothing and calls no listener; a
\* capture tick that passes the guards with non-zero target dimensions emits
\* one videoFrame, and in that step every registered listener is called once
\* with it (each listener that accepts the frame pushes once to its ring).
C17_OneFramePerAcceptedTick ==
    [][ (last'.op = "tick") =>
          /\ Aborted => ~last'.emitted /\ ring' = ring /\ frame' = frame
          /\ (~Aborted /\ textureRequirements[1] # 0 /\ textureRequirements[2] # 0)
                => /\ last'.emitted
                   /\ \A s \in SourceIds :
                         Pushes(ring'[s].ops) = Cardinality(Writers(s, frame')) ]_vars

\* C17 witness: a tick emitted a frame to two listeners, and both wrote it
C17_Witness ==
    /\ last.op = "tick" /\ last.emitted
    /\ Len(listeners) >= 2
    /\ \E s \in SourceIds : Pushes(ring[s].ops) = 2

\* C18: connectAudioSource with a sourceId that has no descriptor throws to
\* its caller, connects nothing and creates no media-element source.
C18_MissingAudioSourceFails ==
    [][ (last'.op = "connectAudioSource, no descriptor") =>
           /\ last'.threw
           /\ audio'.links = audio.links
           /\ audio'.taps = audio.taps
           /\ tapped' = tapped ]_vars

\* C19: at most one media-element source node is ever created, and once it
\* exists a connectAudioSource call with a known sourceId connects through
\* it: the call does not throw and creates no further node.
C19_OneMediaElementSource ==
    [][ /\ audio'.taps <= 1
        /\ (last'.op = "connectAudioSource" /\ audio.taps = 1) =>
              /\ ~last'.threw
              /\ audio'.taps = 1
              /\ audio.links \subseteq audio'.links
              /\ audio'.links # {} ]_vars

\* C20: a connectVideoTexture call that throws for a sourceId missing from
\* the textures or from the sources leaves the pipeline as it was: no
\* source entry, no target dimensions, no listener, and the bound source of
\* an earlier call is kept.
C20_FailedConnectChangesNothing ==
    [][ (last'.op = "connectVideoTexture" /\ last'.threw) =>
            UNCHANGED stateVars ]_vars

\* C21: a tick of the pacing loop captures if and only if the time since the
\* last capture is at least targetInterval - frameDelay; after a capture
\* frameDelay is max(0, processTime - (targetInterval - elapsed)) and the time
\* to the next tick counts from the start of this tick; a tick that does not
\* capture leaves frameDelay alone; frameDelay is never negative.
C21_PacingLoop ==
    [][ /\ frameDelay' >= 0
        /\ (variant = "EventEmitter" /\ last'.op \in {"tick", "idle tick"}) =>
              /\ last'.op = "tick" <=> sinceLast >= targetInterval - frameDelay
              /\ last'.op = "tick" =>
                    /\ pace'.gap = sinceLast
                    /\ frameDelay' =
                          Max(0, pace'.proc - (targetInterval - sinceLast))
                    /\ sinceLast' = Max(Period(targetInterval), pace'.proc)
              /\ last'.op = "idle tick" =>
                    /\ frameDelay' = frameDelay
                    /\ sinceLast' = sinceLast + Period(targetInterval) ]_vars

\* C21 witness: a capture that started before the target interval had passed,
\* because the capture before it overran, and that overran itself
C21_Witness ==
    /\ last.op = "tick"
    /\ pace.procBefore # NoTime
    /\ pace.gap < targetInterval
    /\ frameDelay > 0

\* C22 (as stated): between ticks no scratch matrix of the conversion is
\* live, whichever way the conversion step was left.
C22_NoLiveMatsBetweenTicks == liveMats = 0

\* C23 (as stated): only a capture that emits a videoFrame advances
\* _lastFrameTime; a tick that emits nothing, because a guard aborted it or
\* because the capture threw, leaves _lastFrameTime as it was.
C23_OnlyEmittingTickAdvances ==
    [][ (last'.op \in {"tick", "tick, capture throws"} /\ ~last'.emitted)
            => lastFrameTime' = lastFrameTime ]_vars

\* C24 (as stated): the rectangle a capture of the EventEmitter class draws
\* keeps the aspect ratio of the source and lies inside the target canvas.
C24_DrawnRectFitsTarget ==
    (variant = "EventEmitter" /\ last.op = "tick" /\ last.emitted) =>
        /\ last.drew.drawWidth[1] * last.drew.drawHeight[2] * last.drew.src[2]
              = last.drew.drawHeight[1] * last.drew.drawWidth[2] * last.drew.src[1]
        /\ Leq(last.drew.drawWidth, Whole(textureRequirements[1]))
        /\ Leq(last.drew.drawHeight, Whole(textureRequirements[2]))
        /\ Leq(Whole(0), last.drew.offsetX)
        /\ Leq(Whole(0), last.drew.offsetY)

\* C25 (as stated): the handler of a 'pause', 'ended' or 'error' event of
\* the video element clears the pacing timer: after the event no timer is
\* left.
C25_MediaEventClearsTimer ==
    [][ last'.op \in {"pause event", "ended event", "error event"} =>
            /\ timers' = 0
            /\ videoProcessingInterval' = NoTimer ]_vars

\* the number of whole frames in the ring of source s
Resident(s) == Len(ring[s].buf) \div mpegTextureInfo(s).frameSize

\* C26 (as stated): with the consumer draining whole frames between the
\* statements of an admission, the ring always holds a whole number of
\* frames, each frame's bytes are from one admission, and between admissions
\* count is the number of frames in the ring.
C26_DrainKeepsRingConsistent ==
    \A s \in SourceIds :
        LET size == mpegTextureInfo(s).frameSize
        IN  /\ Len(ring[s].buf) % size = 0
            /\ \A i \in 1..Len(ring[s].buf) :
                  ring[s].buf[i] = ring[s].buf[((i - 1) \div size) * size + 1]
            /\ ring[s].admit = "idle" => ring[s].count = Resident(s)

\* C27 (as stated): in the EventEmitter class, after any admissions of
\* frames of the right size and with no consumer, count is the number of
\* complete frames in the ring, whatever the ring's capacity.
C27_CountIsCompleteFrames ==
    \A s \in SourceIds :
        (variant = "EventEmitter" /\ onlyValid[s]) =>
            /\ Len(ring[s].buf) = ring[s].count * mpegTextureInfo(s).frameSize
            /\ ring[s].count = Resident(s)

\* C28 (as stated): one emitted videoFrame is pushed at most once into the
\* ring of any source, however many connectVideoTexture calls were made.
C28_OnePushPerFrame ==
    [][ last'.emitted =>
            \A s \in SourceIds : Pushes(ring'[s].ops) <= 1 ]_vars

\* C29 (as stated): a capture tick of the EventEmitter class that finds the
\* playback position behind _lastFrameTime, and the element playing with
\* known dimensions, emits a videoFrame.
C29_CaptureAfterRewind ==
    [][ ( /\ variant = "EventEmitter"
          /\ last'.op = "tick"
          /\ videoElement # NoElement
          /\ ~video.paused /\ ~video.ended /\ video.hasDims
          /\ ~ZeroTarget
          /\ lastFrameTime # NoTime
          /\ video.currentTime < lastFrameTime )
            => last'.emitted ]_vars

\* C30 (as stated): once one connectVideoTexture call has succeeded, every
\* frame a capture emits has the width and height of the mpegTextureInfo of
\* the texture bound, whatever textureRequirements the pipeline was given.
C30_CaptureUsesBoundTextureSize ==
    (last.op = "tick" /\ last.emitted /\ Len(listeners) = 1) =>
        \A s \in SourceIds :
            Bound(s) => /\ frame.width = mpegTextureInfo(s).width
                        /\ frame.height = mpegTextureInfo(s).height

\* C31: a pipeline instance never has more than one video element (with its
\* play overlay and streaming player) in the document: every element that
\* initialize() created, but the last, was removed by dispose().
C31_OneElementPerInstance == created - Cardinality(removed) <= 1

\* C32: once the wait of a play() call has resolved or rejected, neither its
\* 30 s timer nor a 100 ms polling timer of checkMedia is pending.
C32_SettledWaitLeavesNoTimer ==
    \A i \in DOMAIN waits :
       waits[i].state # "waiting" =>
          waits[i].timeout # "pending" /\ ~waits[i].poll

\* C33: the script element is appended at most once; every initOpenCV() and
\* getCV() call that returns, returns the same promise, and no two callers
\* see different outcomes; a settled promise keeps its outcome; getCV()
\* throws exactly when no initOpenCV() call has been made, and then changes
\* nothing.
C33_InitOpenCVMemoized ==
    /\ [](/\ scripts <= 1
          /\ \A j, k \in DOMAIN cvCalls :
                /\ cvCalls[j].promise = cvCalls[k].promise
                /\ cvCalls[j].seen # "none" /\ cvCalls[k].seen # "none" =>
                      cvCalls[j].seen = cvCalls[k].seen)
    /\ [][ /\ \A i \in DOMAIN cvPromises :
                cvPromises[i].state # "pending" =>
                   cvPromises'[i].state = cvPromises[i].state
           /\ last'.op = "getCV" =>
                /\ last'.threw <=> cvCalls = <<>>
                /\ last'.threw => UNCHANGED cvVars ]_vars

\* C33 witness: the load succeeded, a later printErr found the promise
\* resolved, and the callers of initOpenCV() and getCV() saw it resolved
C33_Witness ==
    /\ last.op = "printErr"
    /\ Len(cvCalls) >= 2
    /\ scripts = 1
    /\ cvPromises[1].state = "resolved"
    /\ \A k \in DOMAIN cvCalls : cvCalls[k].seen = "resolved"

====
